---- MODULE Spec2Model ----
(***************************************************************************)
(* Model of the voice-call session engine of the receptionist front-end   *)
(* (App component, first variant): session lifecycle (handleStart /       *)
(* handleStop and the connection callbacks), microphone capture and send, *)
(* inbound message handling (playback scheduling, interruption,           *)
(* transcript aggregation) and call recording.                            *)
(*                                                                         *)
(* JavaScript runs one task at a time: every action below is one task (a  *)
(* handler run to its next await, or the continuation after an await)     *)
(* together with the microtasks it leaves behind.                         *)
(***************************************************************************)
EXTENDS Integers, Sequences, FiniteSets, TLC

\* ------------------------------------------------------------------ bounds
MaxSessions == 2      \* handleStart invocations explored
MaxQueue == 2         \* sends queued on a connect promise that is still pending
MaxChunks == 1        \* recorder segments pushed to recordedChunksRef
MaxStopCalls == 2     \* stop triggers counted within one closing window
MaxStarts == 1        \* calls placed in the single-call specifications
MaxMsgs == 3          \* inbound messages received
MaxDur == 2           \* longest audio chunk, in clock ticks
MaxTime == 2          \* last tick of the playback clock
MaxPlayed == 1        \* audio chunks received in the teardown specification
SubSteps == 2         \* sample values told apart within one 16-bit step
MaxFrames == 3        \* capture frames handed to a connection promise

Sessions == 1..MaxSessions
NoSession == 0

\* ------------------------------------------------------------------ state
VARIABLES
  \* React state of the component
  status, isMuted, errorMessage, hasAudioData, isProcessing, transcriptions,
  \* refs of the component
  isClosingRef, sessionPromiseRef, streamRef, recorderRef, mixerRef,
  sourceNodeRef, processorNodeRef, micToMixerNodeRef, recordedChunksRef,
  audioUrlRef, nextStartTimeRef, activeSourcesRef, transcriptionBufferRef,
  \* handleStart invocations and the objects each one creates
  started, startPc, closureMuted, stream, conn, thens, recorder,
  processorNode, sourceNode, micToMixer,
  \* pending cooldown timeouts set by handleStop
  cooldownTimers,
  \* the playback clock, the inbound messages and the buffer sources
  currentTime, arrived, decoding, sources,
  \* history of the run, read by the properties only: stoppedAt[s] is where
  \* the start of call s stood when handleStop first tore down after it began;
  \* stopCalls and tdCount count the stop triggers (stop button, onerror,
  \* onclose) and the teardown side effects since the closing guard was set;
  \* lastFrame and lastSent describe the latest capture frame and the latest
  \* packets sent; effects lists the message ids in the order their handler
  \* stages ran; lastCommit describes the latest turn-complete commit;
  \* startWhileClosing tells that the start button was clicked since the
  \* closing guard was set; tdOrder lists the teardown side effects of the
  \* latest handleStop in the order they took effect
  stoppedAt, stopCalls, tdCount, tdOrder, lastFrame, lastSent, sinceInterrupt, effects,
  turnFirst, lastCommit, startWhileClosing,
  \* failedDecodes holds the ids of the messages whose decode rejected;
  \* arrivalText is each role's deltas, concatenated in arrival order, of the
  \* messages that arrived since the last turn-complete message, and
  \* expected[id] is that text as turn-complete message id arrived
  failedDecodes, arrivalText, expected,
  \* frames counts the capture frames handed to a connection promise, each
  \* numbered by its rank, and sentLog[s] lists the frames whose packet went
  \* out on connection s, in the order the packets went out
  frames, sentLog

uiVars == <<status, isMuted, errorMessage, hasAudioData, isProcessing,
            transcriptions>>
refVars == <<isClosingRef, sessionPromiseRef, streamRef, recorderRef, mixerRef,
             sourceNodeRef, processorNodeRef, micToMixerNodeRef,
             recordedChunksRef, audioUrlRef, nextStartTimeRef,
             activeSourcesRef, transcriptionBufferRef>>
objVars == <<started, startPc, closureMuted, stream, conn, thens, recorder,
             processorNode, sourceNode, micToMixer, cooldownTimers>>
playVars == <<currentTime, arrived, decoding, sources>>
msgHist == <<sinceInterrupt, effects, turnFirst, lastCommit, failedDecodes,
             arrivalText, expected>>
histRest == <<stoppedAt, stopCalls, tdCount, tdOrder, lastFrame, lastSent,
              frames, sentLog, msgHist>>
histVars == <<histRest, startWhileClosing>>

vars == <<uiVars, refVars, objVars, playVars, histVars>>

AppStatus == {"IDLE", "CONNECTING", "CONNECTED", "ERROR"}

Effects == {"close", "recorderStop", "processorDisconnect", "sourceDisconnect",
            "micToMixerDisconnect", "tracksStop", "clearActive", "resetNextStart"}

AwaitPcs == {"awaitResumeIn", "awaitResumeOut", "awaitMic"}

NoFrame == [outcome |-> "none", muted |-> FALSE, closing |-> FALSE,
            handle |-> FALSE, connected |-> FALSE, sample |-> 0, int16 |-> 0]

NoCommit == [at |-> 0, user |-> <<>>, agent |-> <<>>, first |-> "none",
             msg |-> 0, rawUser |-> <<>>, rawAgent |-> <<>>]

EmptyBuffers == [user |-> <<>>, agent |-> <<>>]

Min(a, b) == IF a < b THEN a ELSE b
Max(a, b) == IF a > b THEN a ELSE b

Init ==
  /\ status = "IDLE"
  /\ isMuted = FALSE
  /\ errorMessage = "null"
  /\ hasAudioData = FALSE
  /\ isProcessing = FALSE
  /\ transcriptions = <<>>
  /\ isClosingRef = FALSE
  /\ sessionPromiseRef = NoSession
  /\ streamRef = NoSession
  /\ recorderRef = NoSession
  /\ mixerRef = NoSession
  /\ sourceNodeRef = NoSession
  /\ processorNodeRef = NoSession
  /\ micToMixerNodeRef = NoSession
  /\ recordedChunksRef = <<>>
  /\ audioUrlRef = <<>>
  /\ nextStartTimeRef = 0
  /\ activeSourcesRef = {}
  /\ transcriptionBufferRef = [user |-> <<>>, agent |-> <<>>]
  /\ started = 0
  /\ startPc = [s \in Sessions |-> "unused"]
  /\ closureMuted = [s \in Sessions |-> FALSE]
  /\ stream = [s \in Sessions |-> "none"]
  /\ conn = [s \in Sessions |-> "none"]
  /\ thens = [s \in Sessions |-> <<>>]
  /\ recorder = [s \in Sessions |-> "none"]
  /\ processorNode = [s \in Sessions |-> "none"]
  /\ sourceNode = [s \in Sessions |-> "none"]
  /\ micToMixer = [s \in Sessions |-> "none"]
  /\ cooldownTimers = 0
  /\ currentTime = 0
  /\ arrived = 0
  /\ decoding = <<>>
  /\ sources = <<>>
  /\ stoppedAt = [s \in Sessions |-> "never"]
  /\ stopCalls = 0
  /\ tdCount = [e \in Effects |-> 0]
  /\ tdOrder = <<>>
  /\ lastFrame = NoFrame
  /\ lastSent = {}
  /\ frames = 0
  /\ sentLog = [s \in Sessions |-> <<>>]
  /\ sinceInterrupt = "never"
  /\ effects = <<>>
  /\ turnFirst = "none"
  /\ lastCommit = NoCommit
  /\ startWhileClosing = FALSE
  /\ failedDecodes = {}
  /\ arrivalText = EmptyBuffers
  /\ expected = [id \in 1..MaxMsgs |-> EmptyBuffers]

\* ------------------------------------------------------------ handleStop
\* The variables handleStop may write; every other variable is stopFrame or
\* errorMessage (written by onerror before it calls handleStop).
stopFrame == <<isMuted, hasAudioData, transcriptions, recorderRef, mixerRef,
               recordedChunksRef, audioUrlRef, transcriptionBufferRef,
               started, startPc, closureMuted, currentTime, arrived, decoding,
               lastFrame, lastSent, frames, sentLog, msgHist,
               startWhileClosing>>

\* The re-entrancy guard at the top of handleStop.
AlreadyClosingUnguarded == FALSE
AlreadyClosing == isClosingRef

\* p.then(session => { session.close() }): runs as a microtask when the
\* connect promise of p has resolved (the connection is open), stays queued on
\* the promise while it is pending, and has nothing to close otherwise.
CloseRequested(c, p) ==
  IF p # NoSession /\ c[p] = "open" THEN [c EXCEPT ![p] = "closing"] ELSE c

CloseQueued(q, c, p) ==
  IF p # NoSession /\ c[p] = "pending"
  THEN [q EXCEPT ![p] = Append(@, [kind |-> "close", muted |-> FALSE,
                                   frame |-> 0])]
  ELSE q

RecorderPresent == recorderRef # NoSession
RecorderActive == recorderRef # NoSession /\ recorder[recorderRef] = "recording"

\* Which teardown side effects one effective run of handleStop performs.
Performed(e) ==
  CASE e = "close" -> sessionPromiseRef # NoSession
    [] e = "recorderStop" -> RecorderActive
    [] e = "processorDisconnect" -> processorNodeRef # NoSession
    [] e = "sourceDisconnect" -> sourceNodeRef # NoSession
    [] e = "micToMixerDisconnect" -> micToMixerNodeRef # NoSession
    [] e = "tracksStop" -> streamRef # NoSession
    [] e = "clearActive" -> TRUE
    [] e = "resetNextStart" -> TRUE
    [] e = "clearProcessing" -> TRUE

\* The teardown statements of handleStop in the order they are written.
Statements ==
  <<"close", "recorderStop", "processorDisconnect", "sourceDisconnect",
    "micToMixerDisconnect", "tracksStop", "clearActive", "resetNextStart",
    "clearProcessing">>

\* session.close() is called in a then-callback of the connect promise: it
\* runs once handleStop has returned, and only if the promise has resolved.
Deferred(e) == e = "close"

\* The side effects of one handleStop that passes its guard, in the order
\* they take effect, the connections being in state connNow: the statements
\* that act at once, then the then-callback when the session is open.
TeardownOrder(connNow) ==
  LET now(e) == Performed(e) /\ ~Deferred(e)
      later(e) == /\ Performed(e) /\ Deferred(e)
                  /\ connNow[sessionPromiseRef] = "open"
  IN SelectSeq(Statements, now) \o SelectSeq(Statements, later)

Disconnected(nodes, ref) ==
  IF ref # NoSession THEN [nodes EXCEPT ![ref] = "disconnected"] ELSE nodes

\* setStatus(errorOccurred ? AppStatus.ERROR : AppStatus.IDLE)
StopStatusAlwaysIdle(errorOccurred) == "IDLE"
StopStatusReconnecting(errorOccurred) == "CONNECTING"
StopStatus(errorOccurred) == IF errorOccurred THEN "ERROR" ELSE "IDLE"

\* handleStop(errorOccurred), called with the connections in state connNow.
HandleStop(errorOccurred, connNow) ==
  /\ stopCalls' = Min(stopCalls + 1, MaxStopCalls)
  /\ IF AlreadyClosing
     THEN /\ conn' = connNow
          /\ UNCHANGED <<status, isProcessing, isClosingRef, sessionPromiseRef,
                         streamRef, sourceNodeRef, processorNodeRef,
                         micToMixerNodeRef, nextStartTimeRef, activeSourcesRef,
                         stream, thens, recorder, processorNode, sourceNode,
                         micToMixer, cooldownTimers, sources, stoppedAt,
                         tdCount, tdOrder>>
     ELSE /\ isClosingRef' = TRUE
          /\ status' = StopStatus(errorOccurred)
          /\ sessionPromiseRef' = NoSession
          /\ conn' = CloseRequested(connNow, sessionPromiseRef)
          /\ thens' = CloseQueued(thens, connNow, sessionPromiseRef)
          /\ recorder' = IF RecorderActive
                         THEN [recorder EXCEPT ![recorderRef] = "stopping"]
                         ELSE recorder
          /\ processorNode' = Disconnected(processorNode, processorNodeRef)
          /\ processorNodeRef' = NoSession
          /\ sourceNode' = Disconnected(sourceNode, sourceNodeRef)
          /\ sourceNodeRef' = NoSession
          /\ micToMixer' = Disconnected(micToMixer, micToMixerNodeRef)
          /\ micToMixerNodeRef' = NoSession
          /\ stream' = IF streamRef # NoSession
                       THEN [stream EXCEPT ![streamRef] = "stopped"]
                       ELSE stream
          /\ streamRef' = NoSession
          /\ sources' = [i \in DOMAIN sources |->
                           IF i \in activeSourcesRef
                           THEN [sources[i] EXCEPT !.state = "stopped"]
                           ELSE sources[i]]
          /\ activeSourcesRef' = {}
          /\ nextStartTimeRef' = 0
          /\ isProcessing' = FALSE
          /\ cooldownTimers' = cooldownTimers + 1
          /\ stoppedAt' = [s \in Sessions |->
                             IF stoppedAt[s] = "never" /\ startPc[s] # "unused"
                             THEN startPc[s] ELSE stoppedAt[s]]
          /\ tdCount' = [e \in Effects |->
                           Min(MaxStopCalls,
                               tdCount[e] + IF Performed(e) THEN 1 ELSE 0)]
          /\ tdOrder' = TeardownOrder(connNow)

\* The value the cooldown timeout stores in isClosingRef.
GuardAfterCooldownStuck == TRUE
GuardAfterCooldown == FALSE

\* setTimeout(() => { isClosingRef.current = false }, 500)
CooldownTimer ==
  /\ cooldownTimers > 0
  /\ cooldownTimers' = cooldownTimers - 1
  /\ isClosingRef' = GuardAfterCooldown
  /\ stopCalls' = 0
  /\ startWhileClosing' = FALSE
  /\ tdCount' = [e \in Effects |-> 0]
  /\ tdOrder' = <<>>
  /\ UNCHANGED <<uiVars, sessionPromiseRef, streamRef, recorderRef, mixerRef,
                 sourceNodeRef, processorNodeRef, micToMixerNodeRef,
                 recordedChunksRef, audioUrlRef, nextStartTimeRef,
                 activeSourcesRef, transcriptionBufferRef,
                 started, startPc, closureMuted, stream, conn, thens, recorder,
                 processorNode, sourceNode, micToMixer,
                 playVars, stoppedAt, lastFrame, lastSent, frames, sentLog,
                 msgHist>>

\* The stop button, rendered while status is neither IDLE nor ERROR.
UserStop ==
  /\ status \notin {"IDLE", "ERROR"}
  /\ HandleStop(FALSE, conn)
  /\ UNCHANGED <<errorMessage, stopFrame>>

\* ----------------------------------------------------------- handleStart
\* The guard at the top of handleStart.
StartRefusedNever == FALSE
StartRefused == isClosingRef

\* The start button (rendered while status is IDLE or ERROR): handleStart up
\* to its first await. The closures it creates see the isMuted of this render.
HandleStart ==
  /\ status \in {"IDLE", "ERROR"}
  /\ IF StartRefused
     THEN /\ startWhileClosing' = TRUE
          /\ UNCHANGED <<uiVars, refVars, objVars, playVars, histRest>>
     ELSE /\ started < MaxSessions
          /\ started' = started + 1
          /\ errorMessage' = "null"
          /\ hasAudioData' = FALSE
          /\ audioUrlRef' = <<>>
          /\ recordedChunksRef' = <<>>
          /\ status' = "CONNECTING"
          /\ startPc' = [startPc EXCEPT ![started + 1] = "awaitResumeIn"]
          /\ closureMuted' = [closureMuted EXCEPT ![started + 1] = isMuted]
          /\ startWhileClosing' = (startWhileClosing \/ isClosingRef)
          /\ UNCHANGED <<isMuted, isProcessing, transcriptions, isClosingRef,
                         sessionPromiseRef, streamRef, recorderRef, mixerRef,
                         sourceNodeRef, processorNodeRef, micToMixerNodeRef,
                         nextStartTimeRef, activeSourcesRef,
                         transcriptionBufferRef, stream, conn, thens, recorder,
                         processorNode, sourceNode, micToMixer, cooldownTimers,
                         playVars, histRest>>

\* await audioContextRef.current.resume() has resolved.
ResumedInput(s) ==
  /\ startPc[s] = "awaitResumeIn"
  /\ startPc' = [startPc EXCEPT ![s] = "awaitResumeOut"]
  /\ UNCHANGED <<uiVars, refVars, started, closureMuted, stream, conn, thens,
                 recorder, processorNode, sourceNode, micToMixer,
                 cooldownTimers, playVars, histVars>>

\* await outputAudioContextRef.current.resume() has resolved.
ResumedOutput(s) ==
  /\ startPc[s] = "awaitResumeOut"
  /\ startPc' = [startPc EXCEPT ![s] = "awaitMic"]
  /\ UNCHANGED <<uiVars, refVars, started, closureMuted, stream, conn, thens,
                 recorder, processorNode, sourceNode, micToMixer,
                 cooldownTimers, playVars, histVars>>

\* setStatus(AppStatus.IDLE) in the catch block of handleStart.
StartupFailedStatusError == "ERROR"
StartupFailedStatus == "IDLE"

\* getUserMedia has rejected: the catch block of handleStart.
MicDenied(s) ==
  /\ startPc[s] = "awaitMic"
  /\ startPc' = [startPc EXCEPT ![s] = "failed"]
  /\ errorMessage' = "System error. Check mic permissions."
  /\ status' = StartupFailedStatus
  /\ UNCHANGED <<isMuted, hasAudioData, isProcessing, transcriptions, refVars,
                 started, closureMuted, stream, conn, thens, recorder,
                 processorNode, sourceNode, micToMixer, cooldownTimers,
                 playVars, histVars>>

\* getUserMedia has resolved: the rest of handleStart, which runs without a
\* further await (mixer, mic-to-mixer node, connect, capture nodes).
MicAcquired(s) ==
  /\ startPc[s] = "awaitMic"
  /\ startPc' = [startPc EXCEPT ![s] = "done"]
  /\ stream' = [stream EXCEPT ![s] = "live"]
  /\ streamRef' = s
  /\ mixerRef' = s
  /\ micToMixer' = [micToMixer EXCEPT ![s] = "connected"]
  /\ micToMixerNodeRef' = s
  /\ conn' = [conn EXCEPT ![s] = "pending"]
  /\ sessionPromiseRef' = s
  /\ sourceNode' = [sourceNode EXCEPT ![s] = "connected"]
  /\ sourceNodeRef' = s
  /\ processorNode' = [processorNode EXCEPT ![s] = "connected"]
  /\ processorNodeRef' = s
  /\ UNCHANGED <<uiVars, isClosingRef, recorderRef, recordedChunksRef,
                 audioUrlRef, nextStartTimeRef, activeSourcesRef,
                 transcriptionBufferRef, started, closureMuted, thens,
                 recorder, cooldownTimers, playVars, histVars>>

\* ------------------------------------------------- connection callbacks
\* The then-callbacks queued on the connect promise of s, run in the order
\* they were attached once the promise resolves: a queued send goes out if
\* the closing guard is clear and the session has not been closed by an
\* earlier callback; a queued close closes the session.
FirstClose(q) ==
  IF \E i \in DOMAIN q : q[i].kind = "close"
  THEN CHOOSE i \in DOMAIN q : q[i].kind = "close" /\
                               \A j \in 1..(i - 1) : q[j].kind # "close"
  ELSE Len(q) + 1

DrainedSends(q) ==
  IF isClosingRef THEN {}
  ELSE {[muted |-> q[i].muted, deferred |-> TRUE, closing |-> isClosingRef,
         handle |-> sessionPromiseRef # NoSession] :
          i \in {j \in 1..(FirstClose(q) - 1) : q[j].kind = "send"}}

\* The frames of the queued sends that go out, in the order their callbacks
\* were attached.
DrainedFrames(q) ==
  IF isClosingRef THEN <<>>
  ELSE LET before == SubSeq(q, 1, FirstClose(q) - 1)
           IsSend(e) == e.kind = "send"
           sends == SelectSeq(before, IsSend)
       IN [i \in DOMAIN sends |-> sends[i].frame]

\* onopen, followed by the resolution of the connect promise.
OnOpen(s) ==
  /\ conn[s] = "pending"
  /\ status' = "CONNECTED"
  /\ errorMessage' = "null"
  /\ recorder' = [recorder EXCEPT ![s] = "recording"]
  /\ recorderRef' = s
  /\ conn' = [conn EXCEPT ![s] =
                IF FirstClose(thens[s]) <= Len(thens[s]) THEN "closing" ELSE "open"]
  /\ thens' = [thens EXCEPT ![s] = <<>>]
  /\ lastSent' = IF DrainedSends(thens[s]) # {} THEN DrainedSends(thens[s])
                 ELSE lastSent
  /\ sentLog' = [sentLog EXCEPT ![s] = @ \o DrainedFrames(thens[s])]
  /\ UNCHANGED frames
  /\ UNCHANGED <<isMuted, hasAudioData, isProcessing, transcriptions,
                 isClosingRef, sessionPromiseRef, streamRef, mixerRef,
                 sourceNodeRef, processorNodeRef, micToMixerNodeRef,
                 recordedChunksRef, audioUrlRef, nextStartTimeRef,
                 activeSourcesRef, transcriptionBufferRef,
                 started, startPc, closureMuted, stream, processorNode,
                 sourceNode, micToMixer, cooldownTimers, playVars,
                 stoppedAt, stopCalls, tdCount, tdOrder, lastFrame, msgHist,
                 startWhileClosing>>

\* The message onerror shows.
UnstableMessageUnset == "null"
UnstableMessage == "Line unstable. Resetting connection..."

\* if (isClosingRef.current) return; at the top of onerror and onclose.
CallbackGuardOff == FALSE
CallbackGuard == isClosingRef

\* The argument onclose passes to handleStop (none: errorOccurred = false).
OnCloseReportsError == TRUE
OnCloseErrorOccurred == FALSE

\* onerror: the socket failed, while connecting or while open.
OnError(s) ==
  /\ conn[s] \in {"pending", "open"}
  /\ IF CallbackGuard
     THEN /\ conn' = [conn EXCEPT ![s] = "errored"]
          /\ UNCHANGED <<status, isProcessing, isClosingRef, sessionPromiseRef,
                         streamRef, sourceNodeRef, processorNodeRef,
                         micToMixerNodeRef, nextStartTimeRef, activeSourcesRef,
                         stream, thens, recorder, processorNode, sourceNode,
                         micToMixer, cooldownTimers, sources, stoppedAt,
                         tdCount, tdOrder, errorMessage>>
          /\ stopCalls' = Min(stopCalls + 1, MaxStopCalls)
     ELSE /\ errorMessage' = UnstableMessage
          /\ HandleStop(TRUE, [conn EXCEPT ![s] = "errored"])
  /\ UNCHANGED stopFrame

\* onclose: the socket has closed (remote close, after an error, or after
\* session.close()).
OnClose(s) ==
  /\ conn[s] \in {"open", "closing", "errored"}
  /\ IF CallbackGuard
     THEN /\ conn' = [conn EXCEPT ![s] = "closed"]
          /\ UNCHANGED <<status, isProcessing, isClosingRef, sessionPromiseRef,
                         streamRef, sourceNodeRef, processorNodeRef,
                         micToMixerNodeRef, nextStartTimeRef, activeSourcesRef,
                         stream, thens, recorder, processorNode, sourceNode,
                         micToMixer, cooldownTimers, sources, stoppedAt,
                         tdCount, tdOrder>>
          /\ stopCalls' = Min(stopCalls + 1, MaxStopCalls)
     ELSE HandleStop(OnCloseErrorOccurred, [conn EXCEPT ![s] = "closed"])
  /\ UNCHANGED <<errorMessage, stopFrame>>

\* --------------------------------------------------------------- capture
\* The mute button, rendered while status is neither IDLE nor ERROR.
ToggleMute ==
  /\ status \notin {"IDLE", "ERROR"}
  /\ isMuted' = ~isMuted
  /\ UNCHANGED <<status, errorMessage, hasAudioData, isProcessing,
                 transcriptions, refVars, objVars, playVars, histVars>>

\* The early return of processor.onaudioprocess of the session started as s.
FrameGated(s) ==
  closureMuted[s] \/ isClosingRef \/ sessionPromiseRef = NoSession

QueuedSends(q) == Cardinality({i \in DOMAIN q : q[i].kind = "send"})

Int16Scale == 32768
Int16Modulus == 65536

\* Samples are counted in units of 1 / (SubSteps * 32768); FullScale is 1.0.
FullScale == SubSteps * Int16Scale

\* The values a sample of the input buffer takes: -1.0, 1.0, 0.0, the halves
\* and the values next to them.
Samples ==
  {-FullScale, 1 - FullScale, -(FullScale \div 2), -1, 0, 1,
   FullScale \div 2, FullScale - 1, FullScale}

\* The integer part of n / d (d > 0), rounding toward zero.
Truncate(n, d) == IF n >= 0 THEN n \div d ELSE -((-n) \div d)

\* The value an Int16Array element holds after it is assigned the number
\* n / d: the integer part, modulo 2^16, read as a signed 16-bit integer.
ToInt16(n, d) ==
  LET bits == Truncate(n, d) % Int16Modulus
  IN IF bits >= Int16Modulus \div 2 THEN bits - Int16Modulus ELSE bits

\* int16[i] = inputData[i] * 32768 for the sample x / FullScale: the product
\* is x / SubSteps.
ConvertSample(x) == ToInt16(x, SubSteps)

\* session.sendRealtimeInput({ media: pcmBlob }) for frame f on a connection
\* whose packets so far are log.
DeliveredTwice(log, f) == Append(Append(log, f), f)
Delivered(log, f) == Append(log, f)

\* processor.onaudioprocess of session s: one capture frame, whose samples
\* have the value x / FullScale.
AudioProcess(s, x) ==
  /\ processorNode[s] = "connected"
  /\ LET p == sessionPromiseRef
         frame == [muted |-> isMuted, closing |-> isClosingRef,
                   handle |-> p # NoSession, connected |-> status = "CONNECTED"]
         Frame(o, in, out) ==
           [outcome |-> o, muted |-> frame.muted,
            closing |-> frame.closing, handle |-> frame.handle,
            connected |-> frame.connected, sample |-> in, int16 |-> out]
         Outcome(o) == Frame(o, x, ConvertSample(x))
     IN IF FrameGated(s)
        THEN /\ x = 0
             /\ lastFrame' = Frame("dropped", 0, 0)
             /\ UNCHANGED <<thens, lastSent, frames, sentLog>>
        ELSE /\ frames < MaxFrames
             /\ frames' = frames + 1
             /\ CASE conn[p] = "pending" ->
                    /\ QueuedSends(thens[p]) < MaxQueue
                    /\ thens' = [thens EXCEPT ![p] =
                                   Append(@, [kind |-> "send", muted |-> isMuted,
                                              frame |-> frames + 1])]
                    /\ lastFrame' = Outcome("queued")
                    /\ UNCHANGED <<lastSent, sentLog>>
               [] conn[p] = "open" ->
                    /\ lastFrame' = Outcome("sent")
                    /\ lastSent' = {[muted |-> isMuted, deferred |-> FALSE,
                                     closing |-> isClosingRef, handle |-> TRUE]}
                    /\ sentLog' = [sentLog EXCEPT ![p] =
                                     Delivered(@, frames + 1)]
                    /\ UNCHANGED thens
               [] OTHER ->
                    /\ lastFrame' = Outcome("failed")
                    /\ UNCHANGED <<thens, lastSent, sentLog>>
  /\ UNCHANGED <<uiVars, refVars, started, startPc, closureMuted, stream, conn,
                 recorder, processorNode, sourceNode, micToMixer,
                 cooldownTimers, playVars, stoppedAt, stopCalls, tdCount, tdOrder,
                 msgHist, startWhileClosing>>

\* ------------------------------------------------------------- recorder
\* recorder.ondataavailable of session s with a non-empty segment.
RecorderData(s) ==
  /\ recorder[s] = "recording"
  /\ Len(recordedChunksRef) < MaxChunks
  /\ recordedChunksRef' = Append(recordedChunksRef, s)
  /\ UNCHANGED <<uiVars, isClosingRef, sessionPromiseRef, streamRef,
                 recorderRef, mixerRef, sourceNodeRef, processorNodeRef,
                 micToMixerNodeRef, audioUrlRef, nextStartTimeRef,
                 activeSourcesRef, transcriptionBufferRef, objVars, playVars,
                 histVars>>

\* recorder.stop() of session s takes effect: a last dataavailable event
\* (final: its segment is non-empty), then recorder.onstop.
RecorderStopped(s, final) ==
  /\ recorder[s] = "stopping"
  /\ final => Len(recordedChunksRef) < MaxChunks
  /\ recorder' = [recorder EXCEPT ![s] = "stopped"]
  /\ recordedChunksRef' = IF final THEN Append(recordedChunksRef, s)
                          ELSE recordedChunksRef
  /\ audioUrlRef' = <<recordedChunksRef'>>
  /\ hasAudioData' = TRUE
  /\ UNCHANGED <<status, isMuted, errorMessage, isProcessing, transcriptions,
                 isClosingRef, sessionPromiseRef, streamRef, recorderRef,
                 mixerRef, sourceNodeRef, processorNodeRef, micToMixerNodeRef,
                 nextStartTimeRef, activeSourcesRef,
                 transcriptionBufferRef, started, startPc, closureMuted,
                 stream, conn, thens, processorNode, sourceNode, micToMixer,
                 cooldownTimers, playVars, histVars>>

\* ------------------------------------------------------ inbound messages
\* A LiveServerMessage, as far as onmessage reads it: audio is the duration of
\* the inline audio part (0: no audio part), input/output hold the text of
\* inputTranscription/outputTranscription (NoText: the field is absent).
NoText == <<>>
Deltas == {<<" ">>, <<"a", " ">>}
TxField == {NoText} \cup {<<d>> : d \in Deltas}

Message(a, i, in, out, tc) ==
  [audio |-> a, interrupted |-> i, input |-> in, output |-> out,
   turnComplete |-> tc]

\* Messages that carry audio and/or the interrupted flag.
AudioMsgs ==
  {Message(a, i, NoText, NoText, FALSE) : a \in 0..MaxDur, i \in BOOLEAN}
    \ {Message(0, FALSE, NoText, NoText, FALSE)}

\* Messages that carry transcription deltas and/or turnComplete.
TextMsgs ==
  {Message(0, FALSE, in, out, tc) :
     in \in TxField, out \in TxField, tc \in BOOLEAN}
    \ {Message(0, FALSE, NoText, NoText, FALSE)}

\* The same, with or without an audio part.
MixedMsgs ==
  {Message(a, FALSE, in, out, tc) :
     a \in 0..1, in \in TxField, out \in TxField, tc \in BOOLEAN}
    \ {Message(0, FALSE, NoText, NoText, FALSE)}

\* String.prototype.trim on a sequence of characters.
TrimNothing(str) == str
Trim(str) ==
  LET solid == {i \in 1..Len(str) : str[i] # " "}
  IN IF solid = {} THEN <<>>
     ELSE SubSeq(str, CHOOSE i \in solid : \A j \in solid : i <= j,
                      CHOOSE i \in solid : \A j \in solid : i >= j)

Entry(role, txt, now) == [type |-> role, text |-> txt, timestamp |-> now]

\* The two setTranscriptions calls of the turnComplete branch, applied to the
\* transcript ts with the buffers buf.
CommitTurnAgentFirst(ts, buf, now) ==
  LET userText == Trim(buf.user)
      agentText == Trim(buf.agent)
      withAgent == IF agentText # <<>>
                   THEN Append(ts, Entry("agent", agentText, now)) ELSE ts
  IN IF userText # <<>>
     THEN Append(withAgent, Entry("user", userText, now)) ELSE withAgent

CommitTurnDroppingOldest(ts, buf, now) ==
  CommitTurnAgentFirst(IF ts = <<>> THEN ts ELSE Tail(ts), buf, now)

CommitTurn(ts, buf, now) ==
  LET userText == Trim(buf.user)
      agentText == Trim(buf.agent)
      withUser == IF userText # <<>>
                  THEN Append(ts, Entry("user", userText, now)) ELSE ts
  IN IF agentText # <<>>
     THEN Append(withUser, Entry("agent", agentText, now)) ELSE withUser

\* activeSourcesRef.current.forEach(s => s.stop()) on the buffer sources srcs.
StopAll(srcs, act) ==
  [i \in DOMAIN srcs |->
     IF i \in act THEN [srcs[i] EXCEPT !.state = "stopped"] ELSE srcs[i]]

\* onmessage of message id from its interrupted branch to its end, entered
\* with active set act, next start time ns and buffer sources srcs (the
\* values the audio branch, if it ran, left behind).
Continue(id, m, act, ns, srcs, si) ==
  LET buf0 == transcriptionBufferRef
      buf1 == IF m.input # NoText
              THEN [buf0 EXCEPT !.user = @ \o m.input[1]] ELSE buf0
      buf2 == IF m.output # NoText
              THEN [buf1 EXCEPT !.agent = @ \o m.output[1]] ELSE buf1
      p1 == IF m.interrupted THEN FALSE ELSE isProcessing
      p2 == IF m.input # NoText THEN TRUE ELSE p1
      first == IF turnFirst # "none" THEN turnFirst
               ELSE IF m.input # NoText /\ m.output # NoText THEN "both"
               ELSE IF m.input # NoText THEN "user"
               ELSE IF m.output # NoText THEN "agent"
               ELSE "none"
  IN /\ activeSourcesRef' = IF m.interrupted THEN {} ELSE act
     /\ sources' = IF m.interrupted THEN StopAll(srcs, act) ELSE srcs
     /\ nextStartTimeRef' = IF m.interrupted THEN 0 ELSE ns
     /\ sinceInterrupt' = IF m.interrupted THEN "fresh" ELSE si
     /\ IF m.turnComplete
        THEN /\ transcriptions' = CommitTurn(transcriptions, buf2, currentTime)
             /\ transcriptionBufferRef' = [user |-> <<>>, agent |-> <<>>]
             /\ isProcessing' = FALSE
             /\ lastCommit' = [at |-> Len(transcriptions),
                               user |-> Trim(buf2.user),
                               agent |-> Trim(buf2.agent), first |-> first,
                               msg |-> id, rawUser |-> buf2.user,
                               rawAgent |-> buf2.agent]
             /\ turnFirst' = "none"
        ELSE /\ transcriptionBufferRef' = buf2
             /\ isProcessing' = p2
             /\ turnFirst' = first
             /\ UNCHANGED <<transcriptions, lastCommit>>
     /\ effects' = Append(effects, id)
     /\ UNCHANGED failedDecodes

\* The deltas of message m appended to the texts txt.
WithDeltas(txt, m) ==
  [user |-> txt.user \o (IF m.input # NoText THEN m.input[1] ELSE <<>>),
   agent |-> txt.agent \o (IF m.output # NoText THEN m.output[1] ELSE <<>>)]

msgFrame == <<status, isMuted, errorMessage, hasAudioData, isClosingRef,
              sessionPromiseRef, streamRef, recorderRef, mixerRef,
              sourceNodeRef, processorNodeRef, micToMixerNodeRef,
              recordedChunksRef, audioUrlRef, objVars, currentTime,
              stoppedAt, stopCalls, tdCount, tdOrder, lastFrame, lastSent,
              frames, sentLog,
              startWhileClosing>>

\* The suspended handlers q once the interrupted branch of message m has run:
\* stale tells that an interruption was handled while the handler was
\* suspended (read by the properties only).
MarkStale(q, m) ==
  IF m.interrupted THEN [k \in DOMAIN q |-> [q[k] EXCEPT !.stale = TRUE]]
  ELSE q

\* onmessage of connection s receives m: the whole handler when m has no
\* audio part, the handler up to await decodeAudioData when it has one.
OnMessage(s, m) ==
  /\ conn[s] = "open"
  /\ arrived < MaxMsgs
  /\ arrived' = arrived + 1
  /\ IF m.turnComplete
     THEN /\ expected' = [expected EXCEPT
                           ![arrived + 1] = WithDeltas(arrivalText, m)]
          /\ arrivalText' = EmptyBuffers
     ELSE /\ arrivalText' = WithDeltas(arrivalText, m)
          /\ UNCHANGED expected
  /\ IF m.audio > 0
     THEN /\ isProcessing' = FALSE
          /\ nextStartTimeRef' = Max(nextStartTimeRef, currentTime)
          /\ decoding' = Append(decoding,
                                [id |-> arrived + 1, msg |-> m,
                                 arrNs |-> nextStartTimeRef,
                                 arrCt |-> currentTime, stale |-> FALSE])
          /\ effects' = Append(effects, arrived + 1)
          /\ UNCHANGED <<activeSourcesRef, sources, transcriptionBufferRef,
                         transcriptions, sinceInterrupt, turnFirst,
                         lastCommit, failedDecodes>>
     ELSE /\ Continue(arrived + 1, m, activeSourcesRef, nextStartTimeRef,
                      sources, sinceInterrupt)
          /\ decoding' = MarkStale(decoding, m)
  /\ UNCHANGED msgFrame

\* The suspended handlers q once the k-th has ended.
WithoutAny(q, k) == <<>>
Without(q, k) == SubSeq(q, 1, k - 1) \o SubSeq(q, k + 1, Len(q))

\* decodeAudioData(decode(base64Audio), ctx, 24000, 1): the helper lives in
\* utils/audio; it yields a decoded buffer, whose duration is all the handler
\* reads, or rejects, and the handler awaits it, so other tasks (clock ticks,
\* later messages, stop) may run before the handler resumes.
DecodeAudioData(m) == m.audio

\* The start time handed to source.start().
StartTime(h) == nextStartTimeRef

\* decodeAudioData of the k-th suspended handler has resolved: the handler
\* runs from createBufferSource to its end.
DecodeResolved(k) ==
  /\ k \in DOMAIN decoding
  /\ LET h == decoding[k]
         n == Len(sources) + 1
         src == [state |-> "scheduled", start |-> StartTime(h),
                 duration |-> DecodeAudioData(h.msg), msg |-> h.id,
                 schedCt |-> currentTime, arrNs |-> h.arrNs,
                 arrCt |-> h.arrCt, stale |-> h.stale,
                 nsAfter |-> StartTime(h) + DecodeAudioData(h.msg),
                 afterInterrupt |-> sinceInterrupt = "fresh",
                 clean |-> sinceInterrupt = "never" /\ ~h.msg.interrupted]
     IN /\ decoding' = MarkStale(Without(decoding, k), h.msg)
        /\ Continue(h.id, h.msg, activeSourcesRef \cup {n},
                    StartTime(h) + DecodeAudioData(h.msg), Append(sources, src),
                    IF sinceInterrupt = "fresh" THEN "used" ELSE sinceInterrupt)
  /\ UNCHANGED <<msgFrame, arrived, arrivalText, expected>>

\* decodeAudioData of the k-th suspended handler has rejected: the async
\* handler ends there.
DecodeFailed(k) ==
  /\ k \in DOMAIN decoding
  /\ decoding' = Without(decoding, k)
  /\ failedDecodes' = failedDecodes \cup {decoding[k].id}
  /\ UNCHANGED <<uiVars, refVars, objVars, currentTime, arrived, sources,
                 stoppedAt, stopCalls, tdCount, tdOrder, lastFrame, lastSent,
                 frames, sentLog,
                 sinceInterrupt, effects, turnFirst, lastCommit, arrivalText,
                 expected, startWhileClosing>>

\* The playback clock (outputAudioContext.currentTime) advances.
Tick ==
  /\ currentTime < MaxTime
  /\ currentTime' = currentTime + 1
  /\ UNCHANGED <<uiVars, refVars, objVars, arrived, decoding, sources,
                 histVars>>

\* When a buffer source finishes playing: a start time already past begins
\* playing at once.
EndTime(src) == Max(src.start, src.schedCt) + src.duration

\* activeSourcesRef.current.delete(source) on the active set act.
KeptInSet(act, i) == act
Deleted(act, i) == act \ {i}

\* source.onended of buffer source i, after it played to its end or was
\* stopped.
SourceEnded(i) ==
  /\ i \in DOMAIN sources
  /\ \/ sources[i].state = "scheduled" /\ currentTime >= EndTime(sources[i])
     \/ sources[i].state = "stopped"
  /\ sources' = [sources EXCEPT ![i].state = "ended"]
  /\ activeSourcesRef' = Deleted(activeSourcesRef, i)
  /\ UNCHANGED <<uiVars, isClosingRef, sessionPromiseRef, streamRef,
                 recorderRef, mixerRef, sourceNodeRef, processorNodeRef,
                 micToMixerNodeRef, recordedChunksRef, audioUrlRef,
                 nextStartTimeRef, transcriptionBufferRef, objVars,
                 currentTime, arrived, decoding, histVars>>

\* ------------------------------------- handleStop without a closing guard
\* The third variant of the component (and, without the recorder, the
\* second) has no isClosingRef and no cooldown: handleStop tests each ref,
\* releases what it holds and stores null in it. The mic-to-mixer node has
\* no ref there and is left connected.
NotNulled(ref) == ref
Nulled(ref) == NoSession

\* The message onerror shows in the third variant.
NetworkIssueMessage == "Network issue. Reconnecting..."

PerformedUnguarded(e) == e # "micToMixerDisconnect" /\ Performed(e)

\* handleStop(), called with the connections in state connNow.
HandleStopUnguarded(connNow) ==
  /\ stopCalls' = Min(stopCalls + 1, MaxStopCalls)
  /\ conn' = CloseRequested(connNow, sessionPromiseRef)
  /\ thens' = CloseQueued(thens, connNow, sessionPromiseRef)
  /\ sessionPromiseRef' = Nulled(sessionPromiseRef)
  /\ recorder' = IF RecorderActive
                 THEN [recorder EXCEPT ![recorderRef] = "stopping"]
                 ELSE recorder
  /\ processorNode' = Disconnected(processorNode, processorNodeRef)
  /\ processorNodeRef' = Nulled(processorNodeRef)
  /\ sourceNode' = Disconnected(sourceNode, sourceNodeRef)
  /\ sourceNodeRef' = Nulled(sourceNodeRef)
  /\ stream' = IF streamRef # NoSession
               THEN [stream EXCEPT ![streamRef] = "stopped"]
               ELSE stream
  /\ streamRef' = Nulled(streamRef)
  /\ sources' = StopAll(sources, activeSourcesRef)
  /\ activeSourcesRef' = {}
  /\ nextStartTimeRef' = 0
  /\ status' = "IDLE"
  /\ isProcessing' = FALSE
  /\ stoppedAt' = [s \in Sessions |->
                     IF stoppedAt[s] = "never" /\ startPc[s] # "unused"
                     THEN startPc[s] ELSE stoppedAt[s]]
  /\ tdCount' = [e \in Effects |->
                   Min(MaxStopCalls,
                       tdCount[e] + IF PerformedUnguarded(e) THEN 1 ELSE 0)]
  /\ UNCHANGED <<isClosingRef, micToMixer, micToMixerNodeRef, cooldownTimers,
                 tdOrder, stopFrame>>

\* The stop button of the third variant.
UserStopUnguarded ==
  /\ status \notin {"IDLE", "ERROR"}
  /\ HandleStopUnguarded(conn)
  /\ UNCHANGED errorMessage

\* onerror of the third variant.
OnErrorUnguarded(s) ==
  /\ conn[s] \in {"pending", "open"}
  /\ errorMessage' = NetworkIssueMessage
  /\ HandleStopUnguarded([conn EXCEPT ![s] = "errored"])

\* onclose of the third variant.
OnCloseUnguarded(s) ==
  /\ conn[s] \in {"open", "closing", "errored"}
  /\ HandleStopUnguarded([conn EXCEPT ![s] = "closed"])
  /\ UNCHANGED errorMessage

\* ----------------------------------------------------------------- specs
LifecycleRest ==
  \/ \E s \in Sessions : ResumedInput(s)
  \/ \E s \in Sessions : ResumedOutput(s)
  \/ \E s \in Sessions : MicDenied(s)
  \/ \E s \in Sessions : MicAcquired(s)
  \/ \E s \in Sessions : OnOpen(s)
  \/ \E s \in Sessions : OnError(s)
  \/ \E s \in Sessions : OnClose(s)
  \/ UserStop
  \/ CooldownTimer
  \/ \E s \in Sessions : RecorderData(s)
  \/ \E s \in Sessions, final \in BOOLEAN : RecorderStopped(s, final)

Capture ==
  \/ ToggleMute
  \/ \E s \in Sessions, x \in Samples : AudioProcess(s, x)

\* A call that is set up and never stopped.
CallSetup ==
  \/ started < MaxStarts /\ HandleStart
  \/ \E s \in Sessions : ResumedInput(s)
  \/ \E s \in Sessions : ResumedOutput(s)
  \/ \E s \in Sessions : MicAcquired(s)
  \/ \E s \in Sessions : OnOpen(s)

\* The session lifecycle, with up to MaxSessions calls.
Next == HandleStart \/ LifecycleRest

Spec == Init /\ [][Next]_vars

\* The start button, while fewer than MaxStarts calls have been placed or
\* the closing guard is set.
StartClick == HandleStart /\ (isClosingRef \/ started < MaxStarts)

\* The session lifecycle, with up to MaxStarts calls.
NextOneCall == StartClick \/ LifecycleRest

SpecOneCall == Init /\ [][NextOneCall]_vars

\* Starting and stopping calls, the recorder's events left aside; a cooldown
\* timeout that has been set does fire.
NextStartStop ==
  \/ StartClick
  \/ \E s \in Sessions : ResumedInput(s)
  \/ \E s \in Sessions : ResumedOutput(s)
  \/ \E s \in Sessions : MicDenied(s)
  \/ \E s \in Sessions : MicAcquired(s)
  \/ \E s \in Sessions : OnOpen(s)
  \/ \E s \in Sessions : OnError(s)
  \/ \E s \in Sessions : OnClose(s)
  \/ UserStop
  \/ CooldownTimer

SpecStartStopFair ==
  Init /\ [][NextStartStop]_vars /\ WF_vars(CooldownTimer)

\* The lifecycle with microphone capture.
NextCapture == StartClick \/ LifecycleRest \/ Capture

SpecCapture == Init /\ [][NextCapture]_vars

\* A call receiving audio and interruptions; decodes resolve in any order.
NextPlay ==
  \/ CallSetup
  \/ \E s \in Sessions, m \in AudioMsgs : OnMessage(s, m)
  \/ \E k \in 1..MaxMsgs : DecodeResolved(k)
  \/ \E k \in 1..MaxMsgs : DecodeFailed(k)
  \/ Tick
  \/ \E i \in 1..MaxMsgs : SourceEnded(i)

SpecPlay == Init /\ [][NextPlay]_vars

\* The same, with decodes resolving in the order they were started.
NextPlayInOrder ==
  \/ CallSetup
  \/ \E s \in Sessions, m \in AudioMsgs : OnMessage(s, m)
  \/ DecodeResolved(1)
  \/ Tick
  \/ \E i \in 1..MaxMsgs : SourceEnded(i)

SpecPlayInOrder == Init /\ [][NextPlayInOrder]_vars

\* A call receiving transcription deltas and turn-complete signals.
NextText ==
  \/ CallSetup
  \/ \E s \in Sessions, m \in TextMsgs : OnMessage(s, m)

SpecText == Init /\ [][NextText]_vars

\* A call receiving transcription deltas and turn-complete signals in
\* messages that may carry audio; decodes resolve in the order they started.
NextMixed ==
  \/ CallSetup
  \/ \E s \in Sessions, m \in MixedMsgs : OnMessage(s, m)
  \/ DecodeResolved(1)

SpecMixed == Init /\ [][NextMixed]_vars

\* A message that carries one audio chunk and nothing else.
PlainChunk == Message(1, FALSE, NoText, NoText, FALSE)

\* Calls that receive audio chunks and are stopped by the stop button, by
\* onerror or by onclose.
NextTeardown ==
  \/ CallSetup
  \/ arrived < MaxPlayed /\ \E s \in Sessions : OnMessage(s, PlainChunk)
  \/ DecodeResolved(1)
  \/ \E i \in 1..MaxPlayed : SourceEnded(i)
  \/ UserStop
  \/ \E s \in Sessions : OnError(s)
  \/ \E s \in Sessions : OnClose(s)
  \/ CooldownTimer

SpecTeardown == Init /\ [][NextTeardown]_vars

\* A call receiving audio chunks whose decodes resolve or reject, in any
\* order.
NextDecode ==
  \/ CallSetup
  \/ \E s \in Sessions : OnMessage(s, PlainChunk)
  \/ \E k \in 1..MaxMsgs : DecodeResolved(k)
  \/ \E k \in 1..MaxMsgs : DecodeFailed(k)
  \/ Tick
  \/ \E i \in 1..MaxMsgs : SourceEnded(i)

SpecDecode == Init /\ [][NextDecode]_vars

\* A message that completes a turn in which both sides spoke.
WholeTurn == Message(0, FALSE, <<<<"a", " ">>>>, <<<<"a", " ">>>>, TRUE)

\* Calls that commit turns to the transcript and are stopped by the stop
\* button, by onerror or by onclose.
NextCallText ==
  \/ CallSetup
  \/ arrived <= MaxPlayed /\ \E s \in Sessions : OnMessage(s, WholeTurn)
  \/ UserStop
  \/ \E s \in Sessions : OnError(s)
  \/ \E s \in Sessions : OnClose(s)
  \/ CooldownTimer

SpecCallText == Init /\ [][NextCallText]_vars

\* A message that carries the interrupted flag and nothing else.
Interruption == Message(0, TRUE, NoText, NoText, FALSE)

\* A call that receives audio chunks and interruptions while they play, and
\* is stopped by the stop button or by onclose; the run ends within the
\* cooldown of the stop.
NextPlayStop ==
  \/ CallSetup
  \/ /\ arrived <= MaxPlayed
     /\ \E s \in Sessions, m \in {PlainChunk, Interruption} : OnMessage(s, m)
  \/ DecodeResolved(1)
  \/ Tick
  \/ \E i \in 1..MaxMsgs : SourceEnded(i)
  \/ UserStop
  \/ \E s \in Sessions : OnClose(s)

SpecPlayStop == Init /\ [][NextPlayStop]_vars

\* A message that carries an audio chunk together with the interrupted flag,
\* both transcriptions and turnComplete.
LoadedChunk == Message(1, TRUE, <<<<"a", " ">>>>, <<<<"a", " ">>>>, TRUE)

\* A call receiving audio chunks, alone or in messages that carry other
\* fields too, whose decodes resolve or reject in the order they started.
NextDecodeLoaded ==
  \/ CallSetup
  \/ /\ arrived <= MaxPlayed
     /\ \E s \in Sessions, m \in {PlainChunk, LoadedChunk} : OnMessage(s, m)
  \/ DecodeResolved(1)
  \/ DecodeFailed(1)
  \/ Tick
  \/ \E i \in 1..MaxMsgs : SourceEnded(i)

SpecDecodeLoaded == Init /\ [][NextDecodeLoaded]_vars

\* A message that carries one user delta and nothing else.
UserDelta == Message(0, FALSE, <<<<"a", " ">>>>, NoText, FALSE)

\* Up to MaxSessions calls, placed one after the other, that receive deltas
\* and turn-complete messages and are stopped by the stop button or onclose.
NextRecallText ==
  \/ HandleStart
  \/ \E s \in Sessions : ResumedInput(s)
  \/ \E s \in Sessions : ResumedOutput(s)
  \/ \E s \in Sessions : MicAcquired(s)
  \/ \E s \in Sessions : OnOpen(s)
  \/ /\ arrived <= MaxPlayed
     /\ \E s \in Sessions, m \in {UserDelta, WholeTurn} : OnMessage(s, m)
  \/ UserStop
  \/ \E s \in Sessions : OnClose(s)
  \/ CooldownTimer

SpecRecallText == Init /\ [][NextRecallText]_vars

\* A call whose capture frames are sent, queued on the pending connect
\* promise or lost on a connection that failed or was closed.
NextSend ==
  \/ CallSetup
  \/ \E s \in Sessions : AudioProcess(s, 0)
  \/ \E s \in Sessions : OnError(s)
  \/ \E s \in Sessions : OnClose(s)
  \/ UserStop
  \/ CooldownTimer

SpecSend == Init /\ [][NextSend]_vars

\* A call of the third variant: its start-up runs the steps of the first
\* variant (whose guard never fires, isClosingRef staying false), it receives
\* audio chunks and is recorded, and it is stopped by the stop button, by
\* onerror and by onclose, none of them guarded.
NextUnguarded ==
  \/ CallSetup
  \/ arrived < MaxPlayed /\ \E s \in Sessions : OnMessage(s, PlainChunk)
  \/ DecodeResolved(1)
  \/ \E i \in 1..MaxPlayed : SourceEnded(i)
  \/ \E s \in Sessions : RecorderStopped(s, TRUE)
  \/ UserStopUnguarded
  \/ \E s \in Sessions : OnErrorUnguarded(s)
  \/ \E s \in Sessions : OnCloseUnguarded(s)

SpecUnguarded == Init /\ [][NextUnguarded]_vars

\* ---------------------------------------------------------------- claims
\* C1: when a stop trigger (stop button, onerror, onclose) follows another
\* before the closing guard has been cleared, every teardown side effect has
\* been performed at most once since the guard was set, and the unconditional
\* ones (clearing the active set, resetting nextStart) exactly once.
C1_TeardownOnce ==
  stopCalls >= 2 =>
    /\ \A e \in Effects : tdCount[e] <= 1
    /\ tdCount["clearActive"] = 1
    /\ tdCount["resetNextStart"] = 1

\* A full session was torn down and a second stop trigger arrived within the
\* closing window.
C1_Witness ==
  /\ stopCalls >= 2
  /\ isClosingRef
  /\ \A e \in Effects : tdCount[e] = 1

OnOpenRan(s) == recorder[s] # "none"

\* C2: a start() that was suspended at an await when stop() ran never gets
\* its connection opened (its onopen never sets status to CONNECTED).
C2_CancelledStartStaysDown ==
  \A s \in Sessions : stoppedAt[s] \in AwaitPcs => ~OnOpenRan(s)

\* C3: at most one open remote connection and at most one live microphone
\* stream exist at any time.
C3_AtMostOneSession ==
  /\ Cardinality({s \in Sessions : conn[s] = "open"}) <= 1
  /\ Cardinality({s \in Sessions : stream[s] = "live"}) <= 1

Quiescent(s) ==
  /\ startPc[s] \in {"done", "failed"}
  /\ conn[s] \notin {"pending", "closing", "errored"}
  /\ thens[s] = <<>>
  /\ recorder[s] # "stopping"
  /\ cooldownTimers = 0

Released(s) ==
  /\ conn[s] \in {"none", "closed"}
  /\ recorder[s] \in {"none", "stopped"}
  /\ processorNode[s] # "connected"
  /\ sourceNode[s] # "connected"
  /\ micToMixer[s] # "connected"
  /\ stream[s] # "live"

\* C4: once stop() has run for a call and the callbacks pending at that
\* moment have completed, the call holds no resource: connection closed,
\* recorder inactive, capture and mixer nodes disconnected, tracks stopped.
C4_StoppedCallReleased ==
  \A s \in Sessions : (stoppedAt[s] # "never" /\ Quiescent(s)) => Released(s)

\* Buffer sources scheduled while no interruption had yet been handled.
Clean == {i \in DOMAIN sources : sources[i].clean}

\* nextStart as the chunk that arrived just before the chunk of source i left
\* it (0 when source i holds the first chunk).
PrevNextStart(i) ==
  LET earlier == {j \in Clean : sources[j].msg < sources[i].msg}
  IN IF earlier = {} THEN 0
     ELSE sources[CHOOSE j \in earlier :
                    \A k \in earlier : sources[k].msg <= sources[j].msg].nsAfter

\* C5: with no interruption and no stop, chunk i is scheduled at
\* max(nextStart left by chunk i-1, currentTime at the arrival of chunk i),
\* nextStart afterwards is that start plus the chunk's duration, and a chunk
\* never starts before the end of a chunk that arrived before it.
C5_GaplessSchedule ==
  \A i \in Clean :
    /\ sources[i].start = Max(PrevNextStart(i), sources[i].arrCt)
    /\ sources[i].nsAfter = sources[i].start + sources[i].duration
    /\ \A j \in Clean :
         sources[j].msg < sources[i].msg =>
           sources[i].start >= sources[j].start + sources[j].duration

\* C6: after an interruption has been handled the active set is empty and
\* nextStart is 0, and the next chunk scheduled starts at the clock's
\* currentTime of the moment it is scheduled.
C6_InterruptResets ==
  /\ sinceInterrupt = "fresh" => activeSourcesRef = {}
  /\ (sinceInterrupt = "fresh" /\ decoding = <<>>) => nextStartTimeRef = 0
  /\ \A i \in DOMAIN sources :
       sources[i].afterInterrupt => sources[i].start = sources[i].schedCt

\* C7: during a connected call a frame produced while the user has mute on
\* is not sent, and a frame produced while mute is off (guard clear,
\* connection present) is sent.
C7_MuteGatesSending ==
  (lastFrame.outcome # "none" /\ lastFrame.connected) =>
    /\ lastFrame.muted => lastFrame.outcome = "dropped"
    /\ (~lastFrame.muted /\ ~lastFrame.closing /\ lastFrame.handle) =>
         lastFrame.outcome = "sent"

\* C8: a frame goes to the connection if and only if, when it is produced,
\* the muted flag is false, the closing guard is false and a connection
\* handle exists; no packet goes out while the guard is set or after stop()
\* cleared the handle.
C8_SendIff ==
  /\ lastFrame.outcome # "none" =>
       (lastFrame.outcome \in {"sent", "queued"}
          <=> (~lastFrame.muted /\ ~lastFrame.closing /\ lastFrame.handle))
  /\ \A r \in lastSent : ~r.closing /\ r.handle

\* C9: messages take effect strictly in arrival order: no stage of the
\* handler of message k runs after a stage of the handler of a later message.
C9_ArrivalOrder ==
  \A i, j \in DOMAIN effects : i < j => effects[i] <= effects[j]

\* C10: a turn-complete whose trimmed buffers are both non-empty appends the
\* user entry and, right after it, the agent entry.
C10_UserBeforeAgent ==
  (lastCommit.user # <<>> /\ lastCommit.agent # <<>>) =>
    /\ Len(transcriptions) >= lastCommit.at + 2
    /\ transcriptions[lastCommit.at + 1].type = "user"
    /\ transcriptions[lastCommit.at + 1].text = lastCommit.user
    /\ transcriptions[lastCommit.at + 2].type = "agent"
    /\ transcriptions[lastCommit.at + 2].text = lastCommit.agent

\* Both entries were committed in a turn whose agent text arrived first.
C10_Witness ==
  /\ lastCommit.user # <<>>
  /\ lastCommit.agent # <<>>
  /\ lastCommit.first = "agent"
  /\ Len(transcriptions) >= 2

\* C11: the sample conversion maps 1.0 to 32767, -1.0 to -32768 and 0.0 to
\* 0, and the result never wraps around: it has the sign of the input.
C11_ConversionClamps ==
  lastFrame.outcome \in {"queued", "sent", "failed"} =>
    /\ lastFrame.sample = FullScale => lastFrame.int16 = 32767
    /\ lastFrame.sample = -FullScale => lastFrame.int16 = -32768
    /\ lastFrame.sample = 0 => lastFrame.int16 = 0
    /\ lastFrame.sample > 0 => lastFrame.int16 >= 0
    /\ lastFrame.sample < 0 => lastFrame.int16 <= 0

\* The connect attempt of call s failed before onopen and onerror reported it.
ConnectFailed(s) ==
  /\ conn[s] = "errored"
  /\ ~OnOpenRan(s)
  /\ errorMessage = "Line unstable. Resetting connection..."

\* C12: when the connection fails to open during start(), status ends at
\* IDLE and is never ERROR, a message is shown, and the microphone stream,
\* the connection handle, the capture nodes and the recorder are not held.
C12_ConnectFailureEndsIdle ==
  \A s \in Sessions :
    ConnectFailed(s) =>
      /\ status = "IDLE"
      /\ errorMessage # "null"
      /\ sessionPromiseRef # s
      /\ stream[s] # "live"
      /\ processorNode[s] # "connected"
      /\ sourceNode[s] # "connected"
      /\ recorder[s] = "none"

\* C13: the step in which getUserMedia rejects sets status to IDLE (not to
\* ERROR) and shows the startup message, and an attempt that failed this way
\* has no stream, connection, capture node or recorder.
C13_MicFailureEndsIdle ==
  /\ [][\A s \in Sessions :
         (startPc[s] = "awaitMic" /\ startPc'[s] = "failed") =>
           /\ status' = "IDLE"
           /\ errorMessage' = "System error. Check mic permissions."]_vars
  /\ [](\A s \in Sessions :
         startPc[s] = "failed" =>
           /\ stream[s] = "none"
           /\ conn[s] = "none"
           /\ processorNode[s] = "none"
           /\ sourceNode[s] = "none"
           /\ micToMixer[s] = "none"
           /\ recorder[s] = "none")

\* getUserMedia rejected while the call was CONNECTING.
C13_Witness ==
  \E s \in Sessions :
    /\ startPc[s] = "failed"
    /\ stoppedAt[s] = "never"
    /\ status = "IDLE"
    /\ errorMessage = "System error. Check mic permissions."

\* A step in which handleStop runs its teardown: the guard is set, the
\* cooldown timer armed, every handle cleared, the nodes the handles named
\* disconnected, the tracks stopped, an active recorder stopped, the session
\* closed (or its close queued on the pending connect promise), the active
\* sources stopped and dropped, and nextStart reset.
TearsDown ==
  /\ ~isClosingRef /\ isClosingRef'
  /\ cooldownTimers' = cooldownTimers + 1
  /\ sessionPromiseRef' = NoSession
  /\ streamRef' = NoSession
  /\ processorNodeRef' = NoSession
  /\ sourceNodeRef' = NoSession
  /\ micToMixerNodeRef' = NoSession
  /\ streamRef # NoSession => stream'[streamRef] = "stopped"
  /\ processorNodeRef # NoSession =>
       processorNode'[processorNodeRef] = "disconnected"
  /\ sourceNodeRef # NoSession => sourceNode'[sourceNodeRef] = "disconnected"
  /\ micToMixerNodeRef # NoSession =>
       micToMixer'[micToMixerNodeRef] = "disconnected"
  /\ RecorderActive => recorder'[recorderRef] = "stopping"
  /\ \A s \in Sessions :
       (sessionPromiseRef = s /\ conn[s] = "open") => conn'[s] # "open"
  /\ \A s \in Sessions :
       (sessionPromiseRef = s /\ conn[s] = "pending" /\ conn'[s] = "pending") =>
         \E i \in DOMAIN thens'[s] : thens'[s][i].kind = "close"
  /\ \A i \in activeSourcesRef : sources'[i].state = "stopped"
  /\ activeSourcesRef' = {}
  /\ nextStartTimeRef' = 0
  /\ isProcessing' = FALSE

\* A step in which onerror of connection s runs.
OnErrorStep(s) == conn[s] \in {"pending", "open"} /\ conn'[s] = "errored"

\* A step in which onclose of connection s runs.
OnCloseStep(s) ==
  conn[s] \in {"open", "closing", "errored"} /\ conn'[s] = "closed"

\* C14: onerror while the closing guard is clear shows a message, performs
\* the full teardown and leaves status ERROR.
C14_ErrorTearsDown ==
  [][\A s \in Sessions :
       (OnErrorStep(s) /\ ~isClosingRef) =>
         /\ errorMessage' # "null"
         /\ TearsDown
         /\ status' = "ERROR"]_vars

\* The open connection of a recording call that was playing a chunk failed
\* and the call was torn down.
C14_Witness ==
  \E s \in Sessions :
    /\ conn[s] = "errored"
    /\ recorder[s] = "stopping"
    /\ stream[s] = "stopped"
    /\ status = "ERROR"
    /\ stopCalls = 1
    /\ errorMessage = "Line unstable. Resetting connection..."
    /\ \E i \in DOMAIN sources : sources[i].state = "stopped"

\* C15: onclose while the closing guard is clear performs the full teardown,
\* sets status to IDLE and leaves the error message as it was.
C15_CloseTearsDownSilently ==
  [][\A s \in Sessions :
       (OnCloseStep(s) /\ ~isClosingRef) =>
         /\ TearsDown
         /\ status' = "IDLE"
         /\ errorMessage' = errorMessage]_vars

\* The remote side closed the open connection of a recording call that was
\* playing a chunk: the teardown ran from onclose itself.
C15_Witness ==
  \E s \in Sessions :
    /\ conn[s] = "closed"
    /\ recorder[s] = "stopping"
    /\ stream[s] = "stopped"
    /\ status = "IDLE"
    /\ stopCalls = 1
    /\ tdCount["tracksStop"] = 1
    /\ errorMessage = "null"
    /\ \E i \in DOMAIN sources : sources[i].state = "stopped"

\* A step in which handleStart is accepted.
StartStep == started' = started + 1

\* A step in which the catch block of handleStart runs.
FailedStartStep ==
  \E s \in Sessions : startPc[s] # "failed" /\ startPc'[s] = "failed"

\* A step in which handleStop passes its guard.
StopStep == ~isClosingRef /\ isClosingRef'

\* C16: status changes only along the lifecycle: to CONNECTING by an accepted
\* start() from IDLE or ERROR, to CONNECTED from CONNECTING, to IDLE or ERROR
\* by stop() or by a failed start.
C16_StatusStateMachine ==
  [][status' # status =>
       \/ status' = "CONNECTING" /\ status \in {"IDLE", "ERROR"} /\ StartStep
       \/ status' = "CONNECTED" /\ status = "CONNECTING"
       \/ status' \in {"IDLE", "ERROR"} /\ (StopStep \/ FailedStartStep)]_vars

\* C17: a handleStop that passes its guard sets status to ERROR when it was
\* called with errorOccurred (from onerror) and to IDLE otherwise (stop
\* button, onclose).
C17_StopSetsStatus ==
  [][StopStep =>
       status' = IF \E s \in Sessions : OnErrorStep(s) THEN "ERROR"
                 ELSE "IDLE"]_vars

\* A teardown with errorOccurred has run on a call that was IDLE (stopped by
\* the button while its connection was still pending, cooldown elapsed).
C17_Witness ==
  \E s \in Sessions :
    /\ stoppedAt[s] = "done"
    /\ conn[s] = "errored"
    /\ status = "ERROR"
    /\ isClosingRef
    /\ stopCalls = 1
    /\ tdCount["tracksStop"] = 0

\* A step in which the stop button, onerror or onclose fires.
StopTrigger ==
  \/ stopCalls' > stopCalls
  \/ \E s \in Sessions : OnErrorStep(s) \/ OnCloseStep(s)

\* C18: a stop trigger that fires while the closing guard is set changes
\* nothing: status, error message, handles, the objects they name, the
\* active playback set, nextStart and the pending cooldown stay as they are.
C18_GuardedStopNoOp ==
  [][(isClosingRef /\ StopTrigger) =>
       UNCHANGED <<status, errorMessage, isProcessing, isClosingRef,
                   sessionPromiseRef, streamRef, recorderRef, mixerRef,
                   sourceNodeRef, processorNodeRef, micToMixerNodeRef,
                   activeSourcesRef, nextStartTimeRef, sources, stream, thens,
                   recorder, processorNode, sourceNode, micToMixer,
                   cooldownTimers>>]_vars

\* stop(false) from the button, then onerror within the cooldown: status is
\* still IDLE and no message is shown.
C18_Witness ==
  \E s \in Sessions :
    /\ isClosingRef
    /\ stopCalls >= 2
    /\ conn[s] = "errored"
    /\ status = "IDLE"
    /\ errorMessage = "null"

\* A step in which the start button is clicked while the closing guard is
\* set, for the first time since the guard was set.
RefusedStartStep == isClosingRef /\ ~startWhileClosing /\ startWhileClosing'

\* C19: handleStart called while the closing guard is set changes nothing:
\* status, error message, recording state and handles stay as they are, no
\* call is begun, no stream acquired and no connection attempted.
C19_RefusedStartNoOp ==
  [][RefusedStartStep =>
       UNCHANGED <<status, errorMessage, hasAudioData, audioUrlRef,
                   recordedChunksRef, sessionPromiseRef, streamRef,
                   recorderRef, mixerRef, sourceNodeRef, processorNodeRef,
                   micToMixerNodeRef, started, startPc, stream, conn>>]_vars

\* The start button was clicked within the cooldown after onerror tore the
\* call down: the message is still shown and no second call has begun.
C19_Witness ==
  /\ startWhileClosing
  /\ isClosingRef
  /\ started = 1
  /\ status = "ERROR"
  /\ errorMessage = "Line unstable. Resetting connection..."

\* C20: once handleStop has set the closing guard, the cooldown timeout
\* clears it; and whenever the guard is clear and status is IDLE or ERROR, a
\* click on the start button is accepted and sets status to CONNECTING.
C20_GuardClearsStartAccepted ==
  /\ isClosingRef ~> ~isClosingRef
  /\ []((~isClosingRef /\ status \in {"IDLE", "ERROR"}
           /\ started < MaxSessions)
          => ENABLED (HandleStart /\ status' = "CONNECTING"))

\* A call was torn down and the cooldown has elapsed: the guard is clear
\* again and the start button is shown.
C20_Witness ==
  /\ stoppedAt[1] # "never"
  /\ ~isClosingRef
  /\ cooldownTimers = 0
  /\ status \in {"IDLE", "ERROR"}
  /\ started < MaxSessions

\* C21: after onerror has torn down a call whose connection had opened, a
\* click on the start button while status is ERROR is accepted: it sets
\* status to CONNECTING.
C21_RestartAfterError ==
  [][(/\ status = "ERROR"
      /\ \E s \in Sessions : conn[s] = "errored" /\ OnOpenRan(s)
      /\ StartStep \/ RefusedStartStep) =>
       status' = "CONNECTING"]_vars

\* A step in which a connection attempt is made for call s.
ConnectStep(s) == conn[s] = "none" /\ conn'[s] # "none"

\* C22: status changes to CONNECTING only in an accepted handleStart; a
\* connection attempt is made only by the handleStart of its call resuming
\* after getUserMedia, once per call; and onerror, onclose and the catch
\* block begin no call, attempt no connection and do not set CONNECTING.
C22_NoAutoReconnect ==
  /\ [][/\ (status' = "CONNECTING" /\ status # "CONNECTING") => StartStep
        /\ \A s \in Sessions :
             ConnectStep(s) =>
               /\ startPc[s] = "awaitMic" /\ startPc'[s] = "done"
               /\ conn'[s] = "pending"
               /\ \A r \in Sessions \ {s} : ~ConnectStep(r)
        /\ ((\E s \in Sessions : OnErrorStep(s) \/ OnCloseStep(s))
              \/ FailedStartStep) =>
             /\ ~StartStep
             /\ \A s \in Sessions : ~ConnectStep(s)
             /\ status' # "CONNECTING" \/ status = "CONNECTING"]_vars
  /\ [](Cardinality({s \in Sessions : conn[s] # "none"}) <= started)

\* A connection failed, the call was torn down, the cooldown elapsed, and
\* nothing has begun another call or another connection attempt.
C22_Witness ==
  /\ started = 1
  /\ conn[1] \in {"errored", "closed"}
  /\ status = "ERROR"
  /\ ~isClosingRef
  /\ \A s \in Sessions \ {1} : conn[s] = "none" /\ startPc[s] = "unused"

\* The place of a teardown action in the order the specification gives.
Rank(e) ==
  CASE e = "close" -> 1
    [] e = "recorderStop" -> 2
    [] e \in {"processorDisconnect", "sourceDisconnect",
              "micToMixerDisconnect"} -> 3
    [] e = "tracksStop" -> 4
    [] e = "clearActive" -> 5
    [] e = "resetNextStart" -> 6
    [] e = "clearProcessing" -> 7

\* C23: within one handleStop the teardown actions take effect in the order
\* close connection, stop recorder, disconnect nodes, stop tracks, stop and
\* clear the active sources, reset nextStart, clear the processing flag.
C23_TeardownOrder ==
  \A i, j \in DOMAIN tdOrder :
    i < j => Rank(tdOrder[i]) <= Rank(tdOrder[j])

\* C24: the start time handed to source.start() is never earlier than the
\* playback clock's currentTime at that moment.
C24_NeverInThePast ==
  \A i \in DOMAIN sources : sources[i].start >= sources[i].schedCt

\* A step in which a decode rejects.
DecodeFailedStep == failedDecodes' # failedDecodes

Pending(q) == {q[k].id : k \in DOMAIN q}

\* C25: a decode that rejects changes neither status, the error message,
\* the closing guard, the connection handle, the connection nor the active
\* sources, arms no teardown, and leaves the handlers of the other chunks
\* suspended; and every suspended handler can still resume and schedule its
\* chunk.
C25_DecodeFailureAbsorbed ==
  /\ [][DecodeFailedStep =>
         /\ UNCHANGED <<status, errorMessage, isClosingRef, sessionPromiseRef,
                        conn, activeSourcesRef, sources, cooldownTimers,
                        stream, recorder>>
         /\ Pending(decoding') = Pending(decoding) \ failedDecodes']_vars
  /\ [](\A k \in DOMAIN decoding :
         ENABLED (DecodeResolved(k) /\ Len(sources') = Len(sources) + 1))

\* A chunk is playing, the decode of the next chunk rejected, and a chunk
\* that arrived after it has been scheduled.
C25_Witness ==
  \E i, j \in DOMAIN sources :
    /\ sources[i].state = "scheduled"
    /\ sources[j].state = "scheduled"
    /\ \E f \in failedDecodes : sources[i].msg < f /\ f < sources[j].msg
    /\ {i, j} \subseteq activeSourcesRef
    /\ status = "CONNECTED"

Spaces(n) == [i \in 1..n |-> " "]

Blank(raw) == \A i \in DOMAIN raw : raw[i] = " "

\* txt is raw without its leading and trailing spaces.
IsTrimOf(txt, raw) ==
  /\ \E a, b \in 0..Len(raw) : raw = Spaces(a) \o txt \o Spaces(b)
  /\ txt # <<>> => txt[1] # " " /\ txt[Len(txt)] # " "

\* The entries the latest turn-complete appended.
Committed == SubSeq(transcriptions, lastCommit.at + 1, Len(transcriptions))

\* C26: a turn-complete appends one entry for each buffer that is not blank,
\* the user's first, with the buffer's text trimmed, and none for a blank
\* buffer; when its handler ends both buffers are empty.
C26_CommitPerBuffer ==
  lastCommit.msg # 0 =>
    LET u == IF Blank(lastCommit.rawUser) THEN 0 ELSE 1
        a == IF Blank(lastCommit.rawAgent) THEN 0 ELSE 1
    IN /\ Len(Committed) = u + a
       /\ u = 1 => /\ Committed[1].type = "user"
                   /\ IsTrimOf(Committed[1].text, lastCommit.rawUser)
       /\ a = 1 => /\ Committed[u + 1].type = "agent"
                   /\ IsTrimOf(Committed[u + 1].text, lastCommit.rawAgent)
       /\ effects[Len(effects)] = lastCommit.msg =>
            transcriptionBufferRef = [user |-> <<>>, agent |-> <<>>]

\* A turn-complete found the user buffer holding only a space and the agent
\* buffer holding text with a trailing space: one agent entry, trimmed.
C26_Witness ==
  /\ lastCommit.msg # 0
  /\ lastCommit.rawUser # <<>> /\ Blank(lastCommit.rawUser)
  /\ ~Blank(lastCommit.rawAgent)
  /\ lastCommit.rawAgent[Len(lastCommit.rawAgent)] = " "
  /\ Len(Committed) = 1
  /\ effects[Len(effects)] = lastCommit.msg

IsPrefix(p, q) == Len(p) <= Len(q) /\ SubSeq(q, 1, Len(p)) = p

\* C27: in every step the transcript before is a prefix of the transcript
\* after.
C27_AppendOnly == [][IsPrefix(transcriptions, transcriptions')]_vars

\* Two turns were committed and the call was then torn down by onerror; the
\* transcript still holds the four entries.
C27_Witness ==
  /\ Len(transcriptions) = 4
  /\ status = "ERROR"
  /\ transcriptions[1].type = "user"
  /\ transcriptions[4].type = "agent"

\* C28: the text committed for a role by a turn-complete message is the
\* trimmed concatenation, in arrival order, of every delta of that role that
\* arrived after the previous turn-complete message, up to and including
\* the turn-complete message itself.
C28_CommitIsArrivalText ==
  lastCommit.msg # 0 =>
    /\ lastCommit.user = Trim(expected[lastCommit.msg].user)
    /\ lastCommit.agent = Trim(expected[lastCommit.msg].agent)

\* recorder.onstop of session s runs in this step.
OnStopStep(s) == recorder[s] = "stopping" /\ recorder'[s] = "stopped"

\* C29: a recorder is stopped only while it records and its onstop runs
\* once, whatever number of stop triggers follow; onstop finalizes the
\* artifact and sets the recording-ready flag, and nothing else finalizes
\* the artifact or turns the flag from false to true.
C29_FinalizedOnce ==
  [][/\ \A s \in Sessions :
          /\ recorder[s] = "stopped" => recorder'[s] = "stopped"
          /\ recorder[s] = "stopping" => recorder'[s] \in {"stopping", "stopped"}
          /\ (recorder[s] # "stopping" /\ recorder'[s] = "stopping")
                => recorder[s] = "recording"
          /\ OnStopStep(s) => /\ hasAudioData'
                              /\ audioUrlRef' = <<recordedChunksRef'>>
     /\ (~hasAudioData /\ hasAudioData') => \E s \in Sessions : OnStopStep(s)
     /\ (audioUrlRef' # audioUrlRef /\ audioUrlRef' # <<>>)
          => \E s \in Sessions : OnStopStep(s)]_vars

\* A further stop trigger ran the teardown without stopping the recorder
\* again, and the recording was finalized once, with a captured segment.
C29_Witness ==
  /\ \E s \in Sessions : recorder[s] = "stopped"
  /\ hasAudioData
  /\ audioUrlRef # <<>> /\ audioUrlRef[1] # <<>>
  /\ tdOrder # <<>>
  /\ \A i \in DOMAIN tdOrder : tdOrder[i] # "recorderStop"

\* C30: when the recorder was stopped before any segment was captured, the
\* artifact is empty and the recording-ready flag is false.
C30_EmptyRecordingNotReady ==
  (audioUrlRef # <<>> /\ audioUrlRef[1] = <<>>) => ~hasAudioData

\* C31: capture is not buffered: no packet goes out later than the frame it
\* was made from (a frame produced while the connection handshake is
\* pending is never sent once the connection opens).
C31_NoDeferredSend == \A p \in lastSent : ~p.deferred

\* C32: whenever status is CONNECTED the session is live: the microphone
\* stream and the connection handle are present and the closing guard is
\* false.
C32_ConnectedIsLive ==
  status = "CONNECTED" =>
    /\ streamRef # NoSession
    /\ sessionPromiseRef # NoSession
    /\ ~isClosingRef

\* C33: once a start has been accepted, the recording state on show belongs
\* to the call it started: every recorded segment is a segment of that call
\* and the recording-ready flag is set only once that call's recorder has
\* stopped.
C33_StartClearsPrevious ==
  started >= 1 =>
    /\ \A i \in DOMAIN recordedChunksRef : recordedChunksRef[i] = started
    /\ hasAudioData => recorder[started] = "stopped"

\* source.onended of buffer source i runs in this step.
CompletionStep(i) ==
  /\ i \in DOMAIN sources
  /\ sources[i].state # "ended"
  /\ sources'[i].state = "ended"

\* C34: the active set holds only sources that have neither completed nor
\* been force-stopped, and a completion removes its own source from the set
\* (nothing, when the set was cleared before) and changes nothing else.
C34_CompletionRaceSafe ==
  /\ [](\A i \in activeSourcesRef :
          i \in DOMAIN sources /\ sources[i].state = "scheduled")
  /\ [][\A i \in 1..MaxMsgs :
          CompletionStep(i) =>
            /\ activeSourcesRef' = activeSourcesRef \ {i}
            /\ sources' = [sources EXCEPT ![i].state = "ended"]
            /\ UNCHANGED <<uiVars, isClosingRef, sessionPromiseRef,
                           nextStartTimeRef, transcriptionBufferRef, objVars,
                           currentTime, arrived, decoding>>]_vars

\* A source was force-stopped by an interruption before its end time, and
\* its completion fired after the interruption had cleared the active set.
C34_Witness ==
  \E i \in DOMAIN sources :
    /\ sources[i].state = "ended"
    /\ currentTime < EndTime(sources[i])
    /\ sinceInterrupt = "fresh"
    /\ activeSourcesRef = {}
    /\ status = "CONNECTED"

\* A step in which onopen of connection s runs.
OnOpenStep(s) == conn[s] = "pending" /\ conn'[s] \in {"open", "closing"}

\* C35: once handleStop has torn down call s, whose start() had run to its
\* end, a callback of its connection
\* (onopen, onerror, onclose) that runs after the closing guard was cleared
\* and a later call was started changes neither status nor the error
\* message nor the resources of the later calls.
C35_DeadSessionInert ==
  [][\A s \in Sessions :
       (/\ stoppedAt[s] = "done"
        /\ started > s
        /\ ~isClosingRef
        /\ OnOpenStep(s) \/ OnErrorStep(s) \/ OnCloseStep(s))
       => /\ UNCHANGED <<status, errorMessage>>
          /\ \A u \in (s + 1)..MaxSessions :
               UNCHANGED <<stream[u], conn[u], recorder[u], processorNode[u],
                           sourceNode[u], micToMixer[u]>>]_vars

\* C36: while the call is stopped the active set is empty and nextStart is
\* 0, and no source was started from a chunk whose decode was in flight
\* when an interruption was handled.
C36_NoStartAfterClear ==
  /\ status \in {"IDLE", "ERROR"} =>
       activeSourcesRef = {} /\ nextStartTimeRef = 0
  /\ \A i \in DOMAIN sources : ~sources[i].stale

\* The message whose decode rejects in this step.
FailedMessage ==
  LET k == CHOOSE j \in DOMAIN decoding :
             decoding[j].id \in failedDecodes' \ failedDecodes
  IN decoding[k].msg

\* C37: when the decode of a message's audio rejects, the rest of the
\* message is still handled: its interrupted flag clears playback, its
\* deltas are appended to the buffers and its turnComplete commits the turn.
C37_FailedDecodeKeepsRest ==
  [][DecodeFailedStep =>
       LET m == FailedMessage
           buf == WithDeltas(transcriptionBufferRef, m)
       IN /\ m.interrupted =>
               activeSourcesRef' = {} /\ nextStartTimeRef' = 0
          /\ IF m.turnComplete
             THEN /\ transcriptions' = CommitTurn(transcriptions, buf, currentTime)
                  /\ transcriptionBufferRef' = EmptyBuffers
             ELSE transcriptionBufferRef' = buf]_vars

\* C38: text buffered in one call is not carried into the next: both
\* transcription buffers are empty while a call is being set up.
C38_BuffersEmptyAtStart ==
  status = "CONNECTING" => transcriptionBufferRef = EmptyBuffers

Increasing(q) == \A i, j \in DOMAIN q : i < j => q[i] < q[j]

\* C39: the packet of a frame goes out at most once, on one connection, and
\* the packets of a connection go out in the order their frames were
\* produced.
C39_AtMostOnceInOrder ==
  /\ \A s \in Sessions :
       /\ Increasing(sentLog[s])
       /\ \A i \in DOMAIN sentLog[s] : sentLog[s][i] \in 1..frames
  /\ \A s, u \in Sessions :
       s # u => \A i \in DOMAIN sentLog[s], j \in DOMAIN sentLog[u] :
                  sentLog[s][i] # sentLog[u][j]

\* Two frames produced during the handshake were queued on the connect
\* promise, and both went out, in their order, when the connection opened.
C39_Witness ==
  \E s \in Sessions :
    /\ sentLog[s] = <<1, 2>>
    /\ \E p \in lastSent : p.deferred
    /\ thens[s] = <<>>

\* A step in which the unguarded handleStop runs: from the stop button, or
\* from onerror or onclose of some connection.
UnguardedStopStep ==
  \/ status \notin {"IDLE", "ERROR"} /\ status' = "IDLE" /\ ~FailedStartStep
  \/ \E s \in Sessions : OnErrorStep(s) \/ OnCloseStep(s)

\* The state handleStop leaves behind.
TornDown ==
  /\ sessionPromiseRef = NoSession /\ streamRef = NoSession
  /\ processorNodeRef = NoSession /\ sourceNodeRef = NoSession
  /\ ~RecorderActive
  /\ activeSourcesRef = {} /\ nextStartTimeRef = 0
  /\ status = "IDLE" /\ ~isProcessing

ResourceEffects == Effects \ {"clearActive", "resetNextStart"}

\* C40: without a closing guard handleStop is still idempotent: it leaves
\* the torn-down state, and a further call in that state closes no
\* connection, stops no recorder, disconnects no node, stops no track and
\* leaves the state as the first call left it.
C40_UnguardedStopIdempotent ==
  [][UnguardedStopStep =>
       /\ TornDown'
       /\ TornDown =>
            /\ UNCHANGED <<status, isProcessing, sessionPromiseRef, streamRef,
                           recorderRef, processorNodeRef, sourceNodeRef,
                           activeSourcesRef, nextStartTimeRef, stream, thens,
                           recorder, processorNode, sourceNode, micToMixer,
                           sources>>
            /\ \A s \in Sessions :
                 conn'[s] = "closing" => conn[s] = "closing"
            /\ \A e \in ResourceEffects : tdCount'[e] = tdCount[e]]_vars

\* onerror tore a recorded call down, onclose then ran handleStop again, and
\* each resource was released once.
C40_Witness ==
  \E s \in Sessions :
    /\ conn[s] = "closed"
    /\ stoppedAt[s] = "done"
    /\ errorMessage = NetworkIssueMessage
    /\ stopCalls >= 2
    /\ recorder[s] \in {"stopping", "stopped"}
    /\ stream[s] = "stopped"
    /\ tdCount["recorderStop"] = 1 /\ tdCount["tracksStop"] = 1
    /\ tdCount["close"] = 1

====
